---- MODULE Spec2Model ----
(***************************************************************************)
(* Model of package shutdown (go.microcore.dev/framework/shutdown): one    *)
(* manager, its sequencer goroutine (subscribe / exec / term), the handler *)
(* goroutines exec starts, and the callers of the manager's methods.       *)
(* Every action is one atomic access (or one run of local statements       *)
(* around one access) of the Go code; the goroutines interleave freely.    *)
(***************************************************************************)
EXTENDS Integers, Sequences, FiniteSets, TLC

(* ----- program constants ----- *)
stateInit == 0
stateRunning == 1
stateShuttingDown == 2
stateExited == 3

ExitOK == 0
ExitPanic == 10
ExitShutdownError == 20
ExitSignalBase == 128

SIGINT == 2
SIGQUIT == 3
SIGTERM == 15

signals == {SIGINT, SIGTERM, SIGQUIT}

(* ----- bounds of the model ----- *)
\* durations in seconds
defaultShutdownTimeout == 60

NumHandlers == 2     \* AddHandler calls (one handler each)
NumCallers == 2      \* WithContext / NewContext calls
MaxShutdowns == 2    \* Shutdown / Exit calls
MaxSignals == 1      \* signals the OS delivers
MaxWaiters == 2      \* goroutines blocked in Wait
NumSetters == 2      \* SetDefaultManager calls (one custom manager each)
MaxRecovers == 2     \* deferred Recover calls that run
MaxOps == 2          \* package-level operations (calls of def())

Handlers == 1..NumHandlers
Callers == 1..NumCallers
Setters == 1..NumSetters
Ops == 1..MaxOps
NumManagers == 2
NumLogSetters == 2
MaxLoggers == 5
GroupLoggers == 4
BackendLoggers == 3
Managers == 1..NumManagers
\* the manager whose sequencer is modelled; the others only receive calls
Self == 1
Durations == {0, 30}

\* exit codes handed to Shutdown / Exit: below, at and above ExitSignalBase
ManualCodes == {ExitOK, ExitSignalBase, ExitSignalBase + SIGINT}

NoCode == -1         \* "no code yet" in the history variables
NilCtx == 0          \* a nil context.Context / an empty atomic.Value
Background == -2     \* context.Background()

\* managers: none yet, the one def() creates, the one the k-th
\* SetDefaultManager call is given
NoDuration == -1
NoMgr == 0
Lazy == 1
Custom(k) == 1 + k

VARIABLES
    state,      \* m.state
    exit,       \* m.exit   (chan int, capacity 1)
    code,       \* m.code   (chan int, capacity 1)
    catch,      \* m.catch  (chan os.Signal, capacity 1)
    handlers,   \* m.handlers
    once,       \* m.once has run
    mu,         \* m.mu: 0 when free, else the AddHandler call holding it
    ctxCtx,     \* m.ctx.ctx
    ctxCancel,  \* m.ctx.cancel
    canceled,   \* the root contexts whose cancel function has been called
    pc,         \* where the sequencer goroutine (subscribe) is
    lcode,      \* subscribe's local variable code
    execCtx,    \* exec's timeout context: "none", "live", "expired", "canceled"
    wg,         \* exec's WaitGroup counter
    success,    \* exec's atomic success flag
    fns,        \* exec's slices.Clone(m.handlers)
    done,       \* exec's done channel is closed
    g,          \* the handler goroutines of exec
    addpc,      \* the AddHandler calls
    ctxpc,      \* the WithContext calls
    waiters,    \* goroutines blocked in Wait
    proc,       \* the process: "alive", "exited" (exitFunc), "crashed" (runtime panic)
    warns,      \* "code not sent: channel blocked" warnings logged
    \* history (what happened, for the properties)
    nShutdown,  \* Shutdown / Exit calls made
    nSignals,   \* signals delivered
    src,        \* the trigger the sequencer consumed: "none", "manual", "signal"
    prelim,     \* the preliminary code it derived
    execResult, \* how exec's select ended: "none", "done", "timeout"
    published,  \* the code term sent to m.exit
    exitArg,    \* the code Wait passed to exitFunc
    calls,      \* how often each handler was invoked
    outcome,    \* how each handler ended: "none", "nil", "error", "panic"
    addQuiet,   \* handlers whose AddHandler returned nil before any trigger
    addLate,    \* AddHandler calls started after a Shutdown call returned
    addAfterSD, \* AddHandler calls started with the state past stateInit
    ctxQuiet,   \* contexts whose WithContext returned before the trigger was consumed
    nPublished, \* sends term made on m.exit
    nExit,      \* calls of exitFunc
    nilParent,  \* WithContext calls that were given a nil parent
    recovers,   \* Recover calls that found no panic in flight
    \* the package level: the default manager
    defaultManager, \* the package variable defaultManager
    defaultState,   \* the package variable defaultState
    defpc,          \* def(): where the body of once.Do is
    sdmpc,          \* the SetDefaultManager calls
    oppc,           \* the manager def() returned to each package-level operation
    sdmLate,        \* SetDefaultManager calls started after def() had returned
    sdmAfterSD,     \* SetDefaultManager calls started with the default manager
                    \* in state ShuttingDown or Exited
    strayOps,       \* package-level operations performed on another manager than
                    \* the one a SetDefaultManager call had installed before
    lateTrigger,    \* a signal or a Shutdown / Exit call arrived with the state
                    \* ShuttingDown or Exited
    \* the package level: the handler timeout
    timeout,        \* the package variable timeout
    usedTimeout,    \* the duration exec gave to context.WithTimeout
    setOn,          \* the last duration SetShutdownTimeout was given on each manager
    \* the logging facade
    backend,        \* the package variable backend: the two words of an interface
    logMu,          \* the package variable mu: 0 when free, else the SetBackend call
    setpc,          \* the SetBackend / Config calls
    want,           \* the value each SetBackend call assigns
    written,        \* the words the SetBackend call holding mu has written
    hs,             \* the ProxyHandlers made so far; the first is the global logger's
    attrHeap,       \* the backing arrays of the attrs slices
    groupHeap,      \* the backing arrays of the groups slices
    ret,            \* the last derivation: its receiver and the handler it returned
    emit,           \* the emission in flight, between Enabled and Handle
    delivered,      \* the last call of Handle on a backend: the backend reached and
                    \* the attributes of the record it was given
    born,           \* for each handler, what it was made with: its parent, its
                    \* attributes and groups, the name New gave it or its ancestor,
                    \* the backend that was set at that moment
    lastSet         \* the backend of the last SetBackend call that returned

vars == <<state, exit, code, catch, handlers, once, mu, ctxCtx, ctxCancel, canceled,
          pc, lcode, execCtx, wg, success, fns, done, g, addpc, ctxpc, waiters,
          proc, warns, nShutdown, nSignals, src, prelim, execResult, published,
          exitArg, calls, outcome, addQuiet, addLate, addAfterSD, ctxQuiet,
          nPublished, nExit, nilParent, recovers,
          defaultManager, defaultState, defpc, sdmpc, oppc, sdmLate, sdmAfterSD,
          strayOps, lateTrigger, timeout, usedTimeout, setOn,
          backend, logMu, setpc, want, written, hs, attrHeap, groupHeap, ret, emit,
          delivered, born, lastSet>>

mgrVars == <<state, exit, code, catch, handlers, once, mu>>
ctxVars == <<ctxCtx, ctxCancel, canceled>>
seqVars == <<pc, lcode, execCtx, wg, success, fns, done, g>>
callVars == <<addpc, ctxpc, waiters, proc, warns>>
histVars == <<nShutdown, nSignals, src, prelim, execResult, published, exitArg,
              calls, outcome, addQuiet, addLate, addAfterSD, ctxQuiet>>
cntVars == <<nPublished, nExit>>
auxVars == <<nilParent, recovers>>
defVars == <<defaultManager, defaultState, defpc, sdmpc, oppc, sdmLate, sdmAfterSD,
             strayOps>>
trigVars == <<lateTrigger>>
toVars == <<timeout, usedTimeout, setOn>>
logVars == <<backend, logMu, setpc, want, written, hs, attrHeap, groupHeap, ret, emit,
             delivered, born, lastSet>>
extVars == <<trigVars, toVars, logVars>>
shutVars == <<mgrVars, ctxVars, seqVars, callVars, histVars, cntVars, auxVars, defVars,
              trigVars, toVars>>

(* ----- newManager ----- *)
Init ==
    /\ state = stateInit
    /\ exit = <<>>
    /\ code = <<>>
    /\ catch = <<>>
    /\ handlers = <<>>
    /\ once = FALSE
    /\ mu = 0
    /\ ctxCtx = NilCtx
    /\ ctxCancel = NilCtx
    /\ canceled = {}
    /\ pc = "select"
    /\ lcode = 0
    /\ execCtx = "none"
    /\ wg = 0
    /\ success = TRUE
    /\ fns = <<>>
    /\ done = FALSE
    /\ g = [h \in Handlers |-> "none"]
    /\ addpc = [h \in Handlers |-> "idle"]
    /\ ctxpc = [p \in Callers |-> "idle"]
    /\ waiters = 0
    /\ proc = "alive"
    /\ warns = 0
    /\ nShutdown = 0
    /\ nSignals = 0
    /\ src = "none"
    /\ prelim = NoCode
    /\ execResult = "none"
    /\ published = NoCode
    /\ exitArg = NoCode
    /\ calls = [h \in Handlers |-> 0]
    /\ outcome = [h \in Handlers |-> "none"]
    /\ addQuiet = {}
    /\ addLate = {}
    /\ addAfterSD = {}
    /\ ctxQuiet = {}
    /\ nPublished = 0
    /\ nExit = 0
    /\ nilParent = {}
    /\ recovers = 0
    /\ defaultManager = NoMgr
    /\ defaultState = stateInit
    /\ defpc = "idle"
    /\ sdmpc = [k \in Setters |-> "idle"]
    /\ oppc = [i \in Ops |-> NoMgr]
    /\ sdmLate = {}
    /\ sdmAfterSD = {}
    /\ strayOps = {}
    /\ lateTrigger = FALSE
    /\ timeout = defaultShutdownTimeout
    /\ usedTimeout = NoDuration
    /\ setOn = [m \in Managers |-> NoDuration]
    /\ backend = [typ |-> "pretty", data |-> 1]
    /\ logMu = 0
    /\ setpc = [k \in 1..NumLogSetters |-> "idle"]
    /\ want = [k \in 1..NumLogSetters |-> [typ |-> "", data |-> 0]]
    /\ written = {}
    /\ hs = <<[backend |-> "&backend", attrs |-> [arr |-> 0, len |-> 0],
                groups |-> [arr |-> 0, len |-> 0]]>>
    /\ attrHeap = <<>>
    /\ groupHeap = <<>>
    /\ ret = [recv |-> 0, h |-> 0]
    /\ emit = [st |-> "idle", by |-> 0]
    /\ delivered = [to |-> 0, by |-> 0, rec |-> <<>>, attrs |-> <<>>, quiet |-> FALSE]
    /\ born = <<[parent |-> 0, attrs |-> <<>>, groups |-> <<>>, named |-> "",
                  under |-> 1]>>
    /\ lastSet = 1

Range(s) == {s[i] : i \in 1..Len(s)}

\* a Shutdown/Exit call or a signal has occurred
Triggered == nShutdown > 0 \/ nSignals > 0

Alive == proc = "alive"

\* the calls of one method are numbered in the order they start
InOrder(pcs, i) == \A k \in DOMAIN pcs : k < i => pcs[k] # "idle"

(* ----- the root context: WithContext, NewContext, Context ----- *)

\* mutant: the parent is checked first
WithContextCheckNilFirst(stored, parent) ==
    IF parent = NilCtx THEN "errNil"
    ELSE IF stored # NilCtx THEN "errInit"
    ELSE "new"

\* WithContext's two checks, in the order the code makes them
WithContextCheck(stored, parent) ==
    IF stored # NilCtx THEN "errInit"
    ELSE IF parent = NilCtx THEN "errNil"
    ELSE "new"

\* m.ctx.ctx.Load() and the two checks; NewContext is WithContext(Background)
WithContextLoad(p, parent) ==
    /\ Alive
    /\ ctxpc[p] = "idle"
    /\ InOrder(ctxpc, p)
    /\ ctxpc' = [ctxpc EXCEPT ![p] = WithContextCheck(ctxCtx, parent)]
    /\ nilParent' = IF parent = NilCtx THEN nilParent \cup {p} ELSE nilParent
    /\ UNCHANGED <<extVars, cntVars, defVars, recovers, mgrVars, ctxVars, seqVars, waiters, proc, warns, addpc, histVars>>

\* ctx, cancel := context.WithCancel(parent); m.ctx.ctx.Store(ctx)
WithContextStoreCtx(p) ==
    /\ Alive
    /\ ctxpc[p] = "new"
    /\ ctxCtx' = p
    /\ ctxpc' = [ctxpc EXCEPT ![p] = "stored"]
    /\ UNCHANGED <<extVars, cntVars, defVars, auxVars, mgrVars, ctxCancel, canceled, seqVars, waiters, proc, warns, addpc,
                   histVars>>

\* m.ctx.cancel.Store(cancel); return ctx, nil
WithContextStoreCancel(p) ==
    /\ Alive
    /\ ctxpc[p] = "stored"
    /\ ctxCancel' = p
    /\ ctxpc' = [ctxpc EXCEPT ![p] = "ok"]
    /\ ctxQuiet' = IF pc = "select" THEN ctxQuiet \cup {p} ELSE ctxQuiet
    /\ UNCHANGED <<extVars, cntVars, defVars, auxVars, mgrVars, ctxCtx, canceled, seqVars, waiters, proc, warns, addpc,
                   nShutdown, nSignals, src, prelim, execResult, published, exitArg,
                   calls, outcome, addQuiet, addLate, addAfterSD>>

\* what Context() returns
Context == IF ctxCtx = NilCtx THEN Background ELSE ctxCtx

(* ----- the handler registry: AddHandler ----- *)

\* mutant: the check refuses only once the manager has exited
CanAddHandlerUntilExited(st) == st # stateExited

\* the state check AddHandler makes under the mutex
CanAddHandler(st) == st = stateInit

\* m.mu.Lock(); the state check; on failure unlock and return the error
AddHandlerLock(h) ==
    /\ Alive
    /\ addpc[h] = "idle"
    /\ InOrder(addpc, h)
    /\ mu = 0
    /\ IF CanAddHandler(state)
       THEN /\ mu' = h
            /\ addpc' = [addpc EXCEPT ![h] = "locked"]
       ELSE /\ mu' = 0
            /\ addpc' = [addpc EXCEPT ![h] = "err"]
    /\ addLate' = IF nShutdown > 0 THEN addLate \cup {h} ELSE addLate
    /\ addAfterSD' = IF state >= stateShuttingDown THEN addAfterSD \cup {h} ELSE addAfterSD
    /\ UNCHANGED <<extVars, cntVars, defVars, auxVars, state, exit, code, catch, handlers, once, ctxVars, seqVars, ctxpc,
                   waiters, proc, warns, nShutdown, nSignals, src, prelim, execResult,
                   published, exitArg, calls, outcome, addQuiet, ctxQuiet>>

\* m.handlers = append(m.handlers, handler); unlock; return nil
AddHandlerAppend(h) ==
    /\ Alive
    /\ addpc[h] = "locked"
    /\ mu = h
    /\ handlers' = Append(handlers, h)
    /\ mu' = 0
    /\ addpc' = [addpc EXCEPT ![h] = "ok"]
    /\ addQuiet' = IF Triggered THEN addQuiet ELSE addQuiet \cup {h}
    /\ UNCHANGED <<extVars, cntVars, defVars, auxVars, state, exit, code, catch, once, ctxVars, seqVars, ctxpc, waiters,
                   proc, warns, nShutdown, nSignals, src, prelim, execResult, published,
                   exitArg, calls, outcome, addLate, addAfterSD, ctxQuiet>>

(* ----- triggers: Shutdown, Exit, signals; Wait ----- *)

\* the non-blocking send of Shutdown: select { case m.code <- c: default: warn }
TrySend(ch, c) == IF Len(ch) < 1 THEN Append(ch, c) ELSE ch

\* mutant: a full mailbox is overwritten with the new code
ShutdownOverwrites(c) ==
    /\ Alive
    /\ nShutdown < MaxShutdowns
    /\ code' = <<c>>
    /\ warns' = IF Len(code) < 1 THEN warns ELSE warns + 1
    /\ nShutdown' = nShutdown + 1
    /\ lateTrigger' = (lateTrigger \/ state >= stateShuttingDown)
    /\ UNCHANGED <<toVars, logVars, cntVars, defVars, auxVars, state, exit, catch, handlers, once, mu,
                   ctxVars, seqVars, addpc, ctxpc, waiters, proc, nSignals, src,
                   prelim, execResult, published, exitArg, calls, outcome, addQuiet,
                   addLate, addAfterSD, ctxQuiet>>

\* mutant: the default branch of the select logs nothing
ShutdownSilent(c) ==
    /\ Alive
    /\ nShutdown < MaxShutdowns
    /\ code' = TrySend(code, c)
    /\ nShutdown' = nShutdown + 1
    /\ lateTrigger' = (lateTrigger \/ state >= stateShuttingDown)
    /\ UNCHANGED <<toVars, logVars, cntVars, defVars, auxVars, state, exit, catch, handlers, once, mu,
                   ctxVars, seqVars, addpc, ctxpc, waiters, proc, warns, nSignals, src,
                   prelim, execResult, published, exitArg, calls, outcome, addQuiet,
                   addLate, addAfterSD, ctxQuiet>>

Shutdown(c) ==
    /\ Alive
    /\ nShutdown < MaxShutdowns
    /\ code' = TrySend(code, c)
    /\ warns' = IF Len(code) < 1 THEN warns ELSE warns + 1
    /\ nShutdown' = nShutdown + 1
    /\ lateTrigger' = (lateTrigger \/ state >= stateShuttingDown)
    /\ UNCHANGED <<toVars, logVars, cntVars, defVars, auxVars, state, exit, catch, handlers, once, mu, ctxVars, seqVars, addpc, ctxpc,
                   waiters, proc, nSignals, src, prelim, execResult, published, exitArg,
                   calls, outcome, addQuiet, addLate, addAfterSD, ctxQuiet>>

\* Exit(c): m.Shutdown(c), then the caller blocks in m.Wait()
Exit(c) ==
    /\ Alive
    /\ nShutdown < MaxShutdowns
    /\ waiters < MaxWaiters
    /\ code' = TrySend(code, c)
    /\ warns' = IF Len(code) < 1 THEN warns ELSE warns + 1
    /\ nShutdown' = nShutdown + 1
    /\ waiters' = waiters + 1
    /\ lateTrigger' = (lateTrigger \/ state >= stateShuttingDown)
    /\ UNCHANGED <<toVars, logVars, cntVars, defVars, auxVars, state, exit, catch, handlers, once, mu, ctxVars, seqVars, addpc, ctxpc,
                   proc, nSignals, src, prelim, execResult, published, exitArg,
                   calls, outcome, addQuiet, addLate, addAfterSD, ctxQuiet>>

\* a deferred Recover that finds no panic in flight returns at once
RecoverIdle ==
    /\ Alive
    /\ recovers < MaxRecovers
    /\ recovers' = recovers + 1
    /\ UNCHANGED <<extVars, cntVars, defVars, nilParent, mgrVars, ctxVars, seqVars, callVars,
                   histVars>>

\* mutant: Recover exits with ExitOK
RecoverExitsOK(r) == IF r THEN Exit(ExitOK) ELSE RecoverIdle

\* defer m.Recover(): if r := recover(); r != nil { m.Exit(ExitPanic) }
Recover(r) == IF r THEN Exit(ExitPanic) ELSE RecoverIdle

\* a goroutine calls Wait and blocks on <-m.exit
WaitCall ==
    /\ Alive
    /\ waiters < MaxWaiters
    /\ waiters' = waiters + 1
    /\ UNCHANGED <<extVars, cntVars, defVars, auxVars, mgrVars, ctxVars, seqVars, addpc, ctxpc, proc, warns, histVars>>

\* mutant: Wait does not block: it polls m.exit and exits with 0 when empty
WaitPolls ==
    /\ Alive
    /\ waiters > 0
    /\ exitArg' = IF Len(exit) > 0 THEN Head(exit) ELSE ExitOK
    /\ exit' = IF Len(exit) > 0 THEN Tail(exit) ELSE exit
    /\ waiters' = waiters - 1
    /\ proc' = "exited"
    /\ nExit' = nExit + 1
    /\ UNCHANGED <<extVars, nPublished, defVars, auxVars, state, code, catch, handlers, once, mu,
                   ctxVars, seqVars, addpc, ctxpc, warns, nShutdown, nSignals, src,
                   prelim, execResult, published, calls, outcome, addQuiet, addLate,
                   addAfterSD, ctxQuiet>>

\* exitFunc(<-m.exit): os.Exit ends the process
WaitRecv ==
    /\ Alive
    /\ waiters > 0
    /\ Len(exit) > 0
    /\ exitArg' = Head(exit)
    /\ exit' = Tail(exit)
    /\ waiters' = waiters - 1
    /\ proc' = "exited"
    /\ nExit' = nExit + 1
    /\ UNCHANGED <<extVars, nPublished, defVars, auxVars, state, code, catch, handlers, once, mu, ctxVars, seqVars, addpc, ctxpc,
                   warns, nShutdown, nSignals, src, prelim, execResult, published,
                   calls, outcome, addQuiet, addLate, addAfterSD, ctxQuiet>>

\* code = ExitSignalBase + int(sig.(syscall.Signal))
SignalCode(sig) == ExitSignalBase + sig

\* mutant: a signal that arrives during the shutdown ends the process at once
SignalEscalates(s) ==
    /\ Alive
    /\ nSignals < MaxSignals
    /\ pc # "end"
    /\ catch' = TrySend(catch, s)
    /\ nSignals' = nSignals + 1
    /\ proc' = IF state = stateShuttingDown THEN "exited" ELSE proc
    /\ exitArg' = IF state = stateShuttingDown THEN SignalCode(s) ELSE exitArg
    /\ lateTrigger' = (lateTrigger \/ state >= stateShuttingDown)
    /\ UNCHANGED <<toVars, logVars, cntVars, defVars, auxVars, state, exit, code, handlers, once, mu, ctxVars, seqVars, addpc, ctxpc, waiters, warns,
                   nShutdown, src, prelim, execResult, published, calls,
                   outcome, addQuiet, addLate, addAfterSD, ctxQuiet>>

\* the OS delivers a signal: signal.Notify's relay sends without blocking and
\* drops the signal when m.catch is full; after signal.Stop nothing is relayed
Signal(s) ==
    /\ Alive
    /\ nSignals < MaxSignals
    /\ pc # "end"
    /\ catch' = TrySend(catch, s)
    /\ nSignals' = nSignals + 1
    /\ lateTrigger' = (lateTrigger \/ state >= stateShuttingDown)
    /\ UNCHANGED <<toVars, logVars, cntVars, defVars, auxVars, state, exit, code, handlers, once, mu, ctxVars, seqVars, callVars,
                   nShutdown, src, prelim, execResult, published, exitArg, calls,
                   outcome, addQuiet, addLate, addAfterSD, ctxQuiet>>

(* ----- the sequencer: subscribe ----- *)

\* mutant: ExitSignalBase itself is taken for a signal code (>= for >)
FinalCodeFromBase(ok, c) ==
    IF ~ok THEN ExitShutdownError
    ELSE IF c >= ExitSignalBase THEN ExitOK
    ELSE c

\* the final code subscribe computes from exec's result and the preliminary code
FinalCode(ok, c) ==
    IF ~ok THEN ExitShutdownError
    ELSE IF c > ExitSignalBase THEN ExitOK
    ELSE c

\* select: case code = <-m.code
SubscribeCode ==
    /\ Alive
    /\ pc = "select"
    /\ Len(code) > 0
    /\ lcode' = Head(code)
    /\ code' = Tail(code)
    /\ src' = "manual"
    /\ prelim' = Head(code)
    /\ pc' = "store"
    /\ UNCHANGED <<extVars, cntVars, defVars, auxVars, state, exit, catch, handlers, once, mu, ctxVars, execCtx, wg, success,
                   fns, done, g, callVars, nShutdown, nSignals, execResult, published,
                   exitArg, calls, outcome, addQuiet, addLate, addAfterSD, ctxQuiet>>

\* select: case sig := <-m.catch
SubscribeSignal ==
    /\ Alive
    /\ pc = "select"
    /\ Len(catch) > 0
    /\ lcode' = SignalCode(Head(catch))
    /\ catch' = Tail(catch)
    /\ src' = "signal"
    /\ prelim' = SignalCode(Head(catch))
    /\ pc' = "store"
    /\ UNCHANGED <<extVars, cntVars, defVars, auxVars, state, exit, code, handlers, once, mu, ctxVars, execCtx, wg, success,
                   fns, done, g, callVars, nShutdown, nSignals, execResult, published,
                   exitArg, calls, outcome, addQuiet, addLate, addAfterSD, ctxQuiet>>

\* m.state.Store(int32(stateShuttingDown))
SubscribeStore ==
    /\ Alive
    /\ pc = "store"
    /\ state' = stateShuttingDown
    /\ pc' = "cancel"
    /\ UNCHANGED <<extVars, cntVars, defVars, auxVars, exit, code, catch, handlers, once, mu, ctxVars, lcode, execCtx, wg,
                   success, fns, done, g, callVars, histVars>>

\* mutant: the loaded cancel function is not called
CancelLoadedNotCalled(c) == {}

\* the root contexts canceled by: if c := m.ctx.cancel.Load(); c != nil { c() }
CancelLoaded(c) == IF c # NilCtx THEN {c} ELSE {}

SubscribeCancel ==
    /\ Alive
    /\ pc = "cancel"
    /\ canceled' = canceled \cup CancelLoaded(ctxCancel)
    /\ pc' = "wgAdd"
    /\ UNCHANGED <<extVars, cntVars, defVars, auxVars, mgrVars, ctxCtx, ctxCancel, lcode, execCtx, wg, success, fns, done, g,
                   callVars, histVars>>

(* ----- the sequencer: exec ----- *)

\* mutant: exec derives the handler context from the root context
ExecAddFromRoot ==
    /\ Alive
    /\ pc = "wgAdd"
    /\ execCtx' = IF ctxCtx \in canceled THEN "canceled" ELSE "live"
    /\ wg' = Len(handlers)
    /\ success' = TRUE
    /\ pc' = "clone"
    /\ usedTimeout' = timeout
    /\ UNCHANGED <<trigVars, timeout, setOn, logVars, cntVars, defVars, auxVars, mgrVars, ctxVars, lcode, fns, done, g, callVars, histVars>>

\* context.WithTimeout(context.Background(), timeout);
\* wg.Add(len(m.handlers)); success.Store(true)
ExecAdd ==
    /\ Alive
    /\ pc = "wgAdd"
    /\ execCtx' = "live"
    /\ wg' = Len(handlers)
    /\ success' = TRUE
    /\ pc' = "clone"
    /\ usedTimeout' = timeout
    /\ UNCHANGED <<trigVars, timeout, setOn, logVars, cntVars, defVars, auxVars, mgrVars, ctxVars, lcode, fns, done, g, callVars, histVars>>

\* mutant: the loop starts at the second element
SpawnFromSecond(fs, gs) ==
    [h \in Handlers |-> IF h \in {fs[i] : i \in 2..Len(fs)} THEN "spawned" ELSE gs[h]]

\* the goroutines the loop over slices.Clone(m.handlers) starts, one for each
\* element; then the goroutine that waits for wg and closes done
Spawn(fs, gs) == [h \in Handlers |-> IF h \in Range(fs) THEN "spawned" ELSE gs[h]]

ExecClone ==
    /\ Alive
    /\ pc = "clone"
    /\ fns' = handlers
    /\ g' = Spawn(handlers, g)
    /\ pc' = "wait"
    /\ UNCHANGED <<extVars, cntVars, defVars, auxVars, mgrVars, ctxVars, lcode, execCtx, wg, success, done, callVars,
                   histVars>>

\* the deadline of exec's context passes (at once when timeout <= 0)
TimerFire ==
    /\ Alive
    /\ execCtx = "live"
    /\ execCtx' = "expired"
    /\ UNCHANGED <<extVars, cntVars, defVars, auxVars, mgrVars, ctxVars, pc, lcode, wg, success, fns, done, g, callVars,
                   histVars>>

\* the handler goroutine calls fn(ctx, code)
Invoke(h) ==
    /\ Alive
    /\ g[h] = "spawned"
    /\ g' = [g EXCEPT ![h] = "running"]
    /\ calls' = [calls EXCEPT ![h] = @ + 1]
    /\ UNCHANGED <<extVars, cntVars, defVars, auxVars, mgrVars, ctxVars, pc, lcode, execCtx, wg, success, fns, done, callVars,
                   nShutdown, nSignals, src, prelim, execResult, published, exitArg,
                   outcome, addQuiet, addLate, addAfterSD, ctxQuiet>>

\* the success flag after a handler ended with o: an error and a recovered
\* panic both store false
Tally(flag, o) == IF o = "nil" THEN flag ELSE FALSE

\* fn returns nil, returns an error or panics (recovered by the deferred func)
Return(h, o) ==
    /\ Alive
    /\ g[h] = "running"
    /\ g' = [g EXCEPT ![h] = "returned"]
    /\ outcome' = [outcome EXCEPT ![h] = o]
    /\ success' = Tally(success, o)
    /\ UNCHANGED <<extVars, cntVars, defVars, auxVars, mgrVars, ctxVars, pc, lcode, execCtx, wg, fns, done, callVars,
                   nShutdown, nSignals, src, prelim, execResult, published, exitArg,
                   calls, addQuiet, addLate, addAfterSD, ctxQuiet>>

\* defer wg.Done(): a negative counter panics outside any recover, which
\* ends the process
WgDone(h) ==
    /\ Alive
    /\ g[h] = "returned"
    /\ g' = [g EXCEPT ![h] = "finished"]
    /\ wg' = wg - 1
    /\ proc' = IF wg - 1 < 0 THEN "crashed" ELSE proc
    /\ UNCHANGED <<extVars, cntVars, defVars, auxVars, mgrVars, ctxVars, pc, lcode, execCtx, success, fns, done, addpc, ctxpc,
                   waiters, warns, histVars>>

\* go func() { wg.Wait(); close(done) }()
DoneClose ==
    /\ Alive
    /\ pc \in {"wait", "term", "end"}
    /\ ~done
    /\ wg = 0
    /\ done' = TRUE
    /\ UNCHANGED <<extVars, cntVars, defVars, auxVars, mgrVars, ctxVars, pc, lcode, execCtx, wg, success, fns, g, callVars,
                   histVars>>

\* exec returns (defer cancel()), subscribe computes the final code
ExecReturn(branch, ok) ==
    /\ execResult' = branch
    /\ execCtx' = IF execCtx = "live" THEN "canceled" ELSE execCtx
    /\ lcode' = FinalCode(ok, lcode)
    /\ pc' = "term"
    /\ UNCHANGED <<extVars, cntVars, defVars, auxVars, mgrVars, ctxVars, wg, success, fns, done, g, callVars, nShutdown,
                   nSignals, src, prelim, published, exitArg, calls, outcome, addQuiet,
                   addLate, addAfterSD, ctxQuiet>>

\* mutant: the timeout branch returns the success flag like the done branch
ExecTimeoutReturnsFlag ==
    /\ Alive
    /\ pc = "wait"
    /\ execCtx = "expired"
    /\ ExecReturn("timeout", success)

\* select: case <-ctx.Done(): return false
ExecTimeout ==
    /\ Alive
    /\ pc = "wait"
    /\ execCtx = "expired"
    /\ ExecReturn("timeout", FALSE)

\* select: case <-done: return success.Load()
ExecDone ==
    /\ Alive
    /\ pc = "wait"
    /\ done
    /\ ExecReturn("done", success)

(* ----- the sequencer: term ----- *)

\* mutant: term without the once, after which subscribe selects again
TermAgain ==
    /\ Alive
    /\ pc = "term"
    /\ once' = TRUE
    /\ state' = stateExited
    /\ exit' = Append(exit, lcode)
    /\ published' = lcode
    /\ pc' = "select"
    /\ nPublished' = nPublished + 1
    /\ UNCHANGED <<extVars, nExit, defVars, auxVars, code, catch, handlers, mu, ctxVars, lcode,
                   execCtx, wg, success, fns, done, g, callVars, nShutdown, nSignals, src,
                   prelim, execResult, exitArg, calls, outcome, addQuiet, addLate,
                   addAfterSD, ctxQuiet>>

\* m.once.Do: m.state.Store(stateExited); m.exit <- code; then subscribe
\* returns and its deferred signal.Stop runs
Term ==
    /\ Alive
    /\ pc = "term"
    /\ ~once
    /\ once' = TRUE
    /\ state' = stateExited
    /\ exit' = Append(exit, lcode)
    /\ published' = lcode
    /\ pc' = "end"
    /\ nPublished' = nPublished + 1
    /\ UNCHANGED <<extVars, nExit, defVars, auxVars, code, catch, handlers, mu, ctxVars, lcode, execCtx, wg, success, fns,
                   done, g, callVars, nShutdown, nSignals, src, prelim, execResult,
                   exitArg, calls, outcome, addQuiet, addLate, addAfterSD, ctxQuiet>>

Outcomes == {"nil", "error", "panic"}

\* the sequencer goroutine and the goroutines exec starts
Sequencer ==
    \/ SubscribeCode
    \/ SubscribeStore
    \/ SubscribeCancel
    \/ ExecAdd
    \/ ExecClone
    \/ TimerFire
    \/ \E h \in Handlers : Invoke(h)
    \/ \E h \in Handlers, o \in Outcomes : Return(h, o)
    \/ \E h \in Handlers : WgDone(h)
    \/ DoneClose
    \/ ExecTimeout
    \/ ExecDone
    \/ Term

\* termination: handlers are registered, triggers arrive, the sequencer runs
Next ==
    \/ \E h \in Handlers : AddHandlerLock(h)
    \/ \E h \in Handlers : AddHandlerAppend(h)
    \/ \E c \in ManualCodes : Shutdown(c)
    \/ \E c \in ManualCodes : Exit(c)
    \/ WaitCall
    \/ WaitRecv
    \/ \E s \in signals : Signal(s)
    \/ SubscribeSignal
    \/ Sequencer

Spec == Init /\ [][Next]_vars

\* the root context: WithContext / NewContext calls race with each other and
\* with the sequencer; one handler, manual triggers with one code; Wait and
\* the signals are left to Spec
CtxHandlers == {1}

NextCtx ==
    \/ \E p \in Callers, parent \in {NilCtx, Background} : WithContextLoad(p, parent)
    \/ \E p \in Callers : WithContextStoreCtx(p)
    \/ \E p \in Callers : WithContextStoreCancel(p)
    \/ \E h \in CtxHandlers : AddHandlerLock(h)
    \/ \E h \in CtxHandlers : AddHandlerAppend(h)
    \/ Shutdown(ExitOK)
    \/ Sequencer

SpecCtx == Init /\ [][NextCtx]_vars

(* ----- the package level: def, SetDefaultManager ----- *)

\* the variables of the manager model the manager def() creates; a manager
\* given to SetDefaultManager is opaque. defaultManager is a plain variable:
\* a read that races with SetDefaultManager's write returns one of the two
\* values, which the interleaving of the actions gives.

\* def(): once.Do starts, defaultManager = newManager()
DefMake ==
    /\ Alive
    /\ defpc = "idle"
    /\ \E i \in Ops : oppc[i] = NoMgr
    /\ defaultManager' = Lazy
    /\ defpc' = "made"
    /\ UNCHANGED <<extVars, cntVars, auxVars, mgrVars, ctxVars, seqVars, callVars, histVars,
                   defaultState, sdmpc, oppc, sdmLate, sdmAfterSD, strayOps>>

\* mutant: def() resets the default state
DefStoreInit ==
    /\ Alive
    /\ defpc = "made"
    /\ defaultState' = stateInit
    /\ defpc' = "done"
    /\ UNCHANGED <<extVars, cntVars, auxVars, mgrVars, ctxVars, seqVars, callVars, histVars,
                   defaultManager, sdmpc, oppc, sdmLate, sdmAfterSD, strayOps>>

\* def(): defaultState.Store(int32(stateRunning)), once.Do ends
DefStore ==
    /\ Alive
    /\ defpc = "made"
    /\ defaultState' = stateRunning
    /\ defpc' = "done"
    /\ UNCHANGED <<extVars, cntVars, auxVars, mgrVars, ctxVars, seqVars, callVars, histVars,
                   defaultManager, sdmpc, oppc, sdmLate, sdmAfterSD, strayOps>>

\* the managers installed by SetDefaultManager calls that returned nil
Installed == {Custom(k) : k \in {j \in Setters : sdmpc[j] = "ok"}}

\* def(): return defaultManager, to a package-level operation (Context,
\* NewContext, WithContext, AddHandler, Shutdown, Wait, Exit, Recover,
\* SetShutdownTimeout), which calls the method on it
PkgDef(i) ==
    /\ Alive
    /\ defpc = "done"
    /\ oppc[i] = NoMgr
    /\ \A j \in Ops : j < i => oppc[j] # NoMgr
    /\ oppc' = [oppc EXCEPT ![i] = defaultManager]
    /\ strayOps' = IF Installed # {} /\ defaultManager \notin Installed
                   THEN strayOps \cup {i} ELSE strayOps
    /\ UNCHANGED <<extVars, cntVars, auxVars, mgrVars, ctxVars, seqVars, callVars, histVars,
                   defaultManager, defaultState, defpc, sdmpc, sdmLate, sdmAfterSD>>

\* the package-level Shutdown(c): def().Shutdown(c), on the manager def()
\* created
PkgShutdown(c) ==
    /\ nShutdown < Cardinality({i \in Ops : oppc[i] = Lazy})
    /\ Shutdown(c)

\* mutant: the swap succeeds from every state
CasFromAny(st) == TRUE

\* defaultState.CompareAndSwap(int32(stateInit), int32(stateRunning)) succeeds
CasFromInit(st) == st = stateInit

\* the error SetDefaultManager returns when the swap failed
SdmError(st) ==
    CASE st = stateRunning -> "errRunning"
      [] st \in {stateShuttingDown, stateExited} -> "errShutdown"
      [] OTHER -> "errUnknown"

\* SetDefaultManager: the swap and, when it failed, the switch on the state
SdmSwap(k) ==
    /\ Alive
    /\ sdmpc[k] = "idle"
    /\ InOrder(sdmpc, k)
    /\ IF CasFromInit(defaultState)
       THEN /\ defaultState' = stateRunning
            /\ sdmpc' = [sdmpc EXCEPT ![k] = "won"]
       ELSE /\ defaultState' = defaultState
            /\ sdmpc' = [sdmpc EXCEPT ![k] = SdmError(defaultState)]
    /\ sdmLate' = IF defpc = "done" THEN sdmLate \cup {k} ELSE sdmLate
    /\ sdmAfterSD' = IF defaultManager = Lazy /\ state >= stateShuttingDown
                     THEN sdmAfterSD \cup {k} ELSE sdmAfterSD
    /\ UNCHANGED <<extVars, cntVars, auxVars, mgrVars, ctxVars, seqVars, callVars, histVars,
                   defaultManager, defpc, oppc, strayOps>>

\* SetDefaultManager: defaultManager = m; return nil
SdmAssign(k) ==
    /\ Alive
    /\ sdmpc[k] = "won"
    /\ defaultManager' = Custom(k)
    /\ sdmpc' = [sdmpc EXCEPT ![k] = "ok"]
    /\ UNCHANGED <<extVars, cntVars, auxVars, mgrVars, ctxVars, seqVars, callVars, histVars,
                   defaultState, defpc, oppc, sdmLate, sdmAfterSD, strayOps>>

\* the default manager: SetDefaultManager calls race with def(); the manager
\* def() creates runs without handlers and is shut down through the package
NextDef ==
    \/ DefMake
    \/ DefStore
    \/ \E i \in Ops : PkgDef(i)
    \/ \E k \in Setters : SdmSwap(k)
    \/ \E k \in Setters : SdmAssign(k)
    \/ \E c \in ManualCodes : PkgShutdown(c)
    \/ SubscribeCode
    \/ SubscribeStore
    \/ SubscribeCancel
    \/ ExecAdd
    \/ ExecClone
    \/ TimerFire
    \/ DoneClose
    \/ ExecTimeout
    \/ ExecDone
    \/ Term

SpecDef == Init /\ [][NextDef]_vars

LiveHandlers == {1}

\* panics: deferred Recover calls, with and without a panic in flight, are
\* the only triggers; one handler
NextPanic ==
    \/ \E h \in LiveHandlers : AddHandlerLock(h)
    \/ \E h \in LiveHandlers : AddHandlerAppend(h)
    \/ \E r \in BOOLEAN : Recover(r)
    \/ WaitRecv
    \/ Sequencer

SpecPanic == Init /\ [][NextPanic]_vars

\* progress: one handler, manual triggers, Wait; the goroutines of the
\* sequencer, of exec and of Wait are scheduled, and the timer of exec's
\* context fires; nothing makes a handler return
NextLive ==
    \/ \E h \in LiveHandlers : AddHandlerLock(h)
    \/ \E h \in LiveHandlers : AddHandlerAppend(h)
    \/ Shutdown(ExitOK)
    \/ WaitCall
    \/ WaitRecv
    \/ Sequencer

Fairness ==
    /\ WF_vars(SubscribeCode)
    /\ WF_vars(SubscribeStore)
    /\ WF_vars(SubscribeCancel)
    /\ WF_vars(ExecAdd)
    /\ WF_vars(ExecClone)
    /\ WF_vars(TimerFire)
    /\ WF_vars(\E h \in Handlers : Invoke(h))
    /\ WF_vars(\E h \in Handlers : WgDone(h))
    /\ WF_vars(DoneClose)
    /\ WF_vars(ExecTimeout)
    /\ WF_vars(Term)
    /\ WF_vars(WaitRecv)

SpecLive == Init /\ [][NextLive]_vars /\ Fairness

\* the handler timeout: SetShutdownTimeout is called on this manager and on
\* another one while this manager terminates
SetShutdownTimeout(m, d) ==
    /\ Alive
    /\ timeout' = d
    /\ setOn' = [setOn EXCEPT ![m] = d]
    /\ UNCHANGED <<trigVars, usedTimeout, logVars, cntVars, defVars, auxVars, mgrVars, ctxVars,
                   seqVars, callVars, histVars>>

NextTimeout ==
    \/ \E m \in Managers, d \in Durations : SetShutdownTimeout(m, d)
    \/ \E h \in LiveHandlers : AddHandlerLock(h)
    \/ \E h \in LiveHandlers : AddHandlerAppend(h)
    \/ Shutdown(ExitOK)
    \/ Sequencer

SpecTimeout == Init /\ [][NextTimeout]_vars

(* ======================= the logging facade ======================= *)

\* slog.String(k, v)
String(k, v) == [key |-> k, kind |-> "str", str |-> v, sub |-> <<>>]

\* an attribute whose value is a group without attributes
isEmptyGroup(a) == a.kind = "group" /\ Len(a.sub) = 0

\* what AddAttrs and GroupValue keep of a list: empty groups are omitted
DropEmptyGroups(as) == SelectSeq(as, LAMBDA a : ~isEmptyGroup(a))

\* slog.Group(name, anyAttrs...)
Group(name, as) ==
    [key |-> name, kind |-> "group", str |-> "", sub |-> DropEmptyGroups(as)]

\* a slice header; arr = 0 is the nil slice
NilSlice == [arr |-> 0, len |-> 0]

\* the elements of slice s, whose backing array is in heap hp
Elems(hp, s) == IF s.arr = 0 THEN <<>> ELSE SubSeq(hp[s.arr], 1, s.len)

\* cap(s)
Cap(hp, s) == IF s.arr = 0 THEN 0 ELSE Len(hp[s.arr])

\* the capacity append gives a slice that has to grow
GrowCap(old, need) == IF need > 2 * old THEN need ELSE 2 * old

\* append(s, xs...): in place while the capacity suffices, else into a new
\* backing array; zero fills the cells past the length
GoAppend(hp, s, xs, zero) ==
    LET need == s.len + Len(xs)
    IN  IF need <= Cap(hp, s)
        THEN [heap |-> [hp EXCEPT ![s.arr] =
                          [i \in 1..Len(@) |->
                             IF i > s.len /\ i <= need THEN xs[i - s.len] ELSE @[i]]],
              s |-> [arr |-> s.arr, len |-> need]]
        ELSE [heap |-> Append(hp, [i \in 1..GrowCap(Cap(hp, s), need) |->
                                     IF i <= s.len THEN Elems(hp, s)[i]
                                     ELSE IF i <= need THEN xs[i - s.len]
                                     ELSE zero]),
              s |-> [arr |-> Len(hp) + 1, len |-> need]]

\* mutant: the slice itself instead of a copy
NoClone(hp, s, zero) == [heap |-> hp, s |-> s]

\* slices.Clone(s): append(s[:0:0], s...)
Clone(hp, s, zero) ==
    IF s.len = 0 THEN [heap |-> hp, s |-> NilSlice]
    ELSE GoAppend(hp, NilSlice, Elems(hp, s), zero)

ZeroAttr == String("", "")
ZeroGroup == ""

\* the address of the package variable backend
AddrBackend == "&backend"

\* NewProxyHandler(): &ProxyHandler{backend: &backend}
NewProxyHandler == [backend |-> AddrBackend, attrs |-> NilSlice, groups |-> NilSlice]

\* the handler of the package variable logger
logger == 1

\* the interface value of a backend object of dynamic type t
Iface(t, d) == [typ |-> t, data |-> d]

\* the backend SetDefaultState installs: Config with DefaultFormat
DefaultBackend == 1
DefaultFormat == "pretty"

\* the formats Config implements
Formats == {"text", "json", "pretty"}

\* the backend object the call of setter k makes or is given
BackendOf(k) == DefaultBackend + k

LogSetters == 1..NumLogSetters
Loggers == 1..Len(hs)

\* the dynamic type of backend object d
TypeOf(d) == IF d = DefaultBackend THEN DefaultFormat ELSE want[d - DefaultBackend].typ

\* the object a method call on interface value v reaches; a value whose two
\* words come from two assignments of different dynamic types is no object
Torn == 0
Callee(v) == IF v.typ = TypeOf(v.data) THEN v.data ELSE Torn

\* (*h.backend): the value read through the handler's pointer
Deref(h) == IF h.backend = AddrBackend THEN backend ELSE Iface("", Torn)

\* "Wrap attributes in groups from the end": for i := len(h.groups)-1 ... 0
RECURSIVE WrapGroups(_, _, _)
WrapGroups(gs, as, i) ==
    IF i = 0 THEN as ELSE WrapGroups(gs, <<Group(gs[i], as)>>, i - 1)

\* mutant: the groups are wrapped from the first, the last one outermost
HandleFromFirst(h, rec) ==
    LET as == Elems(attrHeap, h.attrs)
        gs == Elems(groupHeap, h.groups)
        sg == [i \in 1..Len(gs) |-> gs[Len(gs) + 1 - i]]
    IN  IF Len(as) = 0 /\ Len(gs) = 0 THEN rec
        ELSE DropEmptyGroups(WrapGroups(sg, as \o rec, Len(sg)))

\* the attributes of the record ProxyHandler.Handle gives to the backend for
\* a record with attributes rec: the record itself on the fast path, else a
\* new record with the handler's and the record's attributes in the groups
Handle(h, rec) ==
    LET as == Elems(attrHeap, h.attrs)
        gs == Elems(groupHeap, h.groups)
    IN  IF Len(as) = 0 /\ Len(gs) = 0 THEN rec
        ELSE DropEmptyGroups(WrapGroups(gs, as \o rec, Len(gs)))

NoEmit == [st |-> "idle", by |-> 0]
NoDelivery == [to |-> Torn, by |-> 0, rec |-> <<>>, attrs |-> <<>>, quiet |-> FALSE]

\* a handler derived from handler l with attribute and group slices sa and sg
Derived(l, sa, sg, as, name, nm) ==
    /\ hs' = Append(hs, [backend |-> hs[l].backend, attrs |-> sa, groups |-> sg])
    /\ ret' = [recv |-> l, h |-> Len(hs) + 1]
    /\ born' = Append(born, [parent |-> l,
                             attrs |-> born[l].attrs \o as,
                             groups |-> IF name = "" THEN born[l].groups
                                        ELSE Append(born[l].groups, name),
                             named |-> IF nm # "" THEN nm ELSE born[l].named,
                             under |-> lastSet])

\* (h *ProxyHandler) WithAttrs(attrs), reached through (*slog.Logger).With
\* and the package function With
WithAttrsNamed(l, as, nm) ==
    /\ l \in Loggers
    /\ IF Len(as) = 0
       THEN /\ ret' = [recv |-> l, h |-> l]
            /\ UNCHANGED <<hs, born, attrHeap>>
       ELSE LET c == Clone(attrHeap, hs[l].attrs, ZeroAttr)
                a == GoAppend(c.heap, c.s, as, ZeroAttr)
            IN  /\ Len(hs) < MaxLoggers
                /\ attrHeap' = a.heap
                /\ Derived(l, a.s, hs[l].groups, as, "", nm)
    /\ UNCHANGED <<shutVars, backend, logMu, setpc, want, written, groupHeap, emit,
                   delivered, lastSet>>

WithAttrs(l, as) == WithAttrsNamed(l, as, "")

\* New(pkg): logger.With(slog.String("pkg", pkg))
New(pkg) == WithAttrsNamed(logger, <<String("pkg", pkg)>>, pkg)

\* (h *ProxyHandler) WithGroup(name), reached through (*slog.Logger).WithGroup
\* and the package function WithGroup
WithGroup(l, name) ==
    /\ l \in Loggers
    /\ IF name = ""
       THEN /\ ret' = [recv |-> l, h |-> l]
            /\ UNCHANGED <<hs, born, groupHeap>>
       ELSE LET c == Clone(groupHeap, hs[l].groups, ZeroGroup)
                a == GoAppend(c.heap, c.s, <<name>>, ZeroGroup)
            IN  /\ Len(hs) < MaxLoggers
                /\ groupHeap' = a.heap
                /\ Derived(l, hs[l].attrs, a.s, <<>>, name, "")
    /\ UNCHANGED <<shutVars, backend, logMu, setpc, want, written, attrHeap, emit,
                   delivered, lastSet>>

\* a logger emits a record: (*slog.Logger).log calls Enabled on the handler,
\* which reads the backend through its pointer
EmitEnabled(l) ==
    /\ l \in Loggers
    /\ emit.st = "idle"
    /\ IF Callee(Deref(hs[l])) = Torn
       THEN /\ delivered' = [to |-> Torn, by |-> l, rec |-> <<>>, attrs |-> <<>>,
                             quiet |-> FALSE]
            /\ emit' = emit
       ELSE /\ delivered' = NoDelivery
            /\ emit' = [st |-> "enabled", by |-> l]
    /\ UNCHANGED <<shutVars, backend, logMu, setpc, want, written, hs, attrHeap,
                   groupHeap, ret, born, lastSet>>

\* then it makes the record with the attributes rec of the call and calls
\* ProxyHandler.Handle, which builds its record and reads the backend again
EmitHandle(rec) ==
    /\ emit.st = "enabled"
    /\ delivered' = [to |-> Callee(Deref(hs[emit.by])), by |-> emit.by,
                     rec |-> rec, attrs |-> Handle(hs[emit.by], rec),
                     quiet |-> logMu = 0]
    /\ emit' = NoEmit
    /\ UNCHANGED <<shutVars, backend, logMu, setpc, want, written, hs, attrHeap,
                   groupHeap, ret, born, lastSet>>

\* SetBackend(h) is called with a backend object of dynamic type t
SetBackendCall(k, t) ==
    /\ setpc[k] = "idle"
    /\ setpc' = [setpc EXCEPT ![k] = "lock"]
    /\ want' = [want EXCEPT ![k] = Iface(t, BackendOf(k))]
    /\ UNCHANGED <<shutVars, backend, logMu, written, hs, attrHeap, groupHeap, ret,
                   emit, delivered, born, lastSet>>

\* Config(opts): a handler of the format is made and given to SetBackend; a
\* format that is not implemented returns an error
Config(k, f) ==
    IF f \in Formats
    THEN SetBackendCall(k, f)
    ELSE /\ setpc[k] = "idle"
         /\ setpc' = [setpc EXCEPT ![k] = "error"]
         /\ UNCHANGED <<shutVars, backend, logMu, want, written, hs, attrHeap,
                        groupHeap, ret, emit, delivered, born, lastSet>>

\* mu.Lock()
SetBackendLock(k) ==
    /\ setpc[k] = "lock"
    /\ logMu = 0
    /\ logMu' = k
    /\ setpc' = [setpc EXCEPT ![k] = "store"]
    /\ UNCHANGED <<shutVars, backend, want, written, hs, attrHeap, groupHeap, ret,
                   emit, delivered, born, lastSet>>

\* one word of the assignment backend = h
StoreWord(old, new) == new

\* backend = h: the two words of the interface value are written one after
\* the other, in an order the build chooses
SetBackendStore(k, w) ==
    /\ setpc[k] = "store"
    /\ w \notin written
    /\ backend' = [backend EXCEPT ![w] = StoreWord(@, want[k][w])]
    /\ written' = written \cup {w}
    /\ UNCHANGED <<shutVars, logMu, setpc, want, hs, attrHeap, groupHeap, ret, emit,
                   delivered, born, lastSet>>

\* defer mu.Unlock(); SetBackend returns
SetBackendUnlock(k) ==
    /\ setpc[k] = "store"
    /\ written = {"typ", "data"}
    /\ logMu' = 0
    /\ written' = {}
    /\ setpc' = [setpc EXCEPT ![k] = "done"]
    /\ lastSet' = want[k].data
    /\ UNCHANGED <<shutVars, backend, want, hs, attrHeap, groupHeap, ret, emit,
                   delivered, born>>

\* the attribute lists and names the calls are made with
AttrArgs == {<<String("k", "v")>>, <<String("pkg", "x")>>}
FacadeArgs == {<<String("user", "alice"), String("role", "admin")>>}
GroupArgs == {"g1", "g2"}
PkgArgs == {"a"}
RecordArgs == {<<>>, <<String("id", "7")>>}

\* loggers are derived and emit records; the backend stays the default one
NextLog ==
    \/ \E p \in PkgArgs : New(p)
    \/ \E as \in FacadeArgs \cup {<<>>} : WithAttrs(logger, as)
    \/ WithGroup(logger, "")
    \/ \E l \in 1..MaxLoggers, as \in AttrArgs : WithAttrs(l, as)
    \/ (Len(hs) < GroupLoggers /\ \E l \in 1..MaxLoggers, n \in GroupArgs : WithGroup(l, n))
    \/ \E l \in 1..MaxLoggers : EmitEnabled(l)
    \/ \E r \in RecordArgs : EmitHandle(r)

SpecLog == Init /\ [][NextLog]_vars

\* the backend is replaced while loggers are derived and emit records
NextBackend ==
    \/ \E k \in LogSetters : SetBackendCall(k, "mock")
    \/ \E k \in LogSetters, f \in {"text", "xml"} : Config(k, f)
    \/ \E k \in LogSetters : SetBackendLock(k)
    \/ \E k \in LogSetters, w \in {"typ", "data"} : SetBackendStore(k, w)
    \/ \E k \in LogSetters : SetBackendUnlock(k)
    \/ (Len(hs) < BackendLoggers /\ \E p \in PkgArgs : New(p))
    \/ (Len(hs) < BackendLoggers /\ \E l \in 1..MaxLoggers : WithAttrs(l, <<String("k", "v")>>))
    \/ (Len(hs) < BackendLoggers /\ \E l \in 1..MaxLoggers : WithGroup(l, "g1"))
    \/ \E l \in 1..MaxLoggers : EmitEnabled(l)
    \/ EmitHandle(<<String("id", "7")>>)

SpecBackend == Init /\ [][NextBackend]_vars

TypeOK ==
    /\ state \in {stateInit, stateShuttingDown, stateExited}
    /\ Len(exit) <= 1 /\ Len(code) <= 1 /\ Len(catch) <= 1
    /\ mu \in {0} \cup Handlers
    /\ proc \in {"alive", "exited", "crashed"}
    /\ ctxCtx \in {NilCtx} \cup Callers
    /\ ctxCancel \in {NilCtx} \cup Callers
    /\ \A h \in Handlers : calls[h] \in 0..1

(* ======================= the claims ======================= *)

Failed(h) == outcome[h] \in {"error", "panic"}
Returned(h) == g[h] \in {"returned", "finished"}
IsPublished == published # NoCode

(* C1: when a registered handler returned an error or panicked and all     *)
(* handlers finished without the timeout branch being taken, the published *)
(* final code is ExitShutdownError.                                        *)
C1_FailureGivesShutdownError ==
    ( /\ IsPublished
      /\ execResult = "done"
      /\ \A h \in Range(fns) : Returned(h)
      /\ \E h \in Handlers : Failed(h) )
    => published = ExitShutdownError

(* C2 as stated: every manual code c the sequencer consumed is the final   *)
(* code, published and passed to exitFunc, when every registered handler   *)
(* returned nil and exec ended through done.                               *)
AllRegisteredNil == \A h \in Handlers : addpc[h] = "ok" => outcome[h] = "nil"

AllSucceeded ==
    /\ execResult = "done"
    /\ \A h \in Range(fns) : outcome[h] = "nil"

C3_SignalCollapses ==
    src = "signal"
    => /\ prelim \in {130, 131, 143}
       /\ IsPublished =>
            published = (IF AllSucceeded THEN ExitOK ELSE ExitShutdownError)

C6_AddedIsInSnapshot ==
    pc \in {"wait", "term", "end"}
    => \A h \in Handlers : addpc[h] = "ok" => h \in Range(fns)

(* C7 as stated: an AddHandler call started after a Shutdown call returned *)
(* fails, leaves the list alone and its handler is never invoked.          *)
Rejected(h) == addpc[h] = "err" /\ h \notin Range(handlers) /\ calls[h] = 0

C7_RejectedAfterShutdownCall ==
    \A h \in addLate : addpc[h] \in {"ok", "err"} => Rejected(h)

(* C7 amended: an AddHandler call started once the state is ShuttingDown   *)
(* or Exited fails, leaves the list alone, and its handler is never run.   *)
C7_RejectedAfterShuttingDown == \A h \in addAfterSD : Rejected(h)

C7_Witness ==
    /\ \E h \in addAfterSD : addpc[h] = "err"
    /\ \E h \in Handlers : addpc[h] = "ok" /\ calls[h] = 1
    /\ IsPublished

(* C8: a root context whose WithContext returned before the sequencer      *)
(* consumed the trigger is canceled before any handler is invoked, and a   *)
(* context is only canceled with the state at ShuttingDown or later.       *)
C8_RootCanceledBeforeHandlers ==
    /\ (\E h \in Handlers : calls[h] > 0) => ctxQuiet \subseteq canceled
    /\ canceled # {} => state >= stateShuttingDown

PassedCheck == {p \in Callers : ctxpc[p] \in {"new", "stored", "ok"}}

C10_SingleAssignment ==
    \A p, q \in Callers :
        ctxpc[p] = "ok" => (Context = p /\ (ctxpc[q] = "ok" => q = p))

(* C11: with any number and interleaving of Shutdown / Exit calls and      *)
(* signals the sequencer sends at most one code to m.exit, exactly one     *)
(* once it has ended, and exitFunc is called at most once, with that code  *)
(* published, while every other Wait stays blocked.                        *)
C11_OnePublicationOneExit ==
    /\ nPublished <= 1
    /\ Len(exit) <= 1
    /\ nExit <= nPublished
    /\ pc = "end" => nPublished = 1
    /\ IsPublished <=> nPublished >= 1
    /\ nExit = 1 <=> proc = "exited"

C11_Witness ==
    /\ nPublished = 1
    /\ nExit = 1
    /\ nShutdown = MaxShutdowns
    /\ nSignals = MaxSignals
    /\ waiters > 0

(* C12: exitFunc is not called before the sequencer has published the      *)
(* final code: a Wait stays blocked until then, for ever when no trigger   *)
(* occurs, and the code passed to exitFunc is the published one.           *)
C12_WaitPassesPublished ==
    /\ nExit > 0 => IsPublished
    /\ exitArg # NoCode => (IsPublished /\ exitArg = published)
    /\ proc = "exited" => exitArg = published
    /\ ~IsPublished => ~ENABLED WaitRecv
    /\ ~Triggered => (nExit = 0 /\ proc = "alive" /\ ~IsPublished)

C12_Witness ==
    /\ proc = "exited"
    /\ exitArg = ExitShutdownError
    /\ published = ExitShutdownError
    /\ \E h \in Handlers : Failed(h)

(* C13: once the sequencer has consumed a trigger it eventually publishes  *)
(* a final code, and once a code is published a blocked Wait eventually    *)
(* calls exitFunc, whatever the handlers do, given that the timer fires.   *)
C13_EventuallyPublishedAndExited ==
    /\ (src # "none") ~> IsPublished
    /\ (IsPublished /\ waiters > 0) ~> (proc = "exited")

(* C14 as stated: of all Shutdown / Exit calls at most one puts its code    *)
(* into the code mailbox; every other call logs the warning.               *)
C14_AtMostOneCodeSent == nShutdown - warns <= 1

(* C14 amended: the sequencer consumes at most one code; a call puts its   *)
(* code into the mailbox exactly when it finds the mailbox empty, so also  *)
(* once after the sequencer took the first code, and logs the warning and  *)
(* drops its code exactly when it finds the mailbox full.                  *)
Consumed == IF src = "manual" THEN 1 ELSE 0

C14_WarnedWhenFull ==
    /\ nShutdown - warns = Consumed + Len(code)
    /\ warns <= nShutdown
    /\ (nShutdown > 0 /\ pc = "select") => Len(code) = 1
    /\ src = "manual" => prelim \in ManualCodes

C14_Witness ==
    /\ nShutdown = 2
    /\ warns = 1
    /\ src = "manual"
    /\ Len(code) = 0
    /\ IsPublished

(* C15: the state of the manager and the default state of the package     *)
(* never decrease in the order Init < Running < ShuttingDown < Exited, and *)
(* a state that is Exited stays Exited.                                    *)
C15_StatesOnlyForward ==
    [][ /\ state' >= state
        /\ defaultState' >= defaultState
        /\ state = stateExited => state' = stateExited
        /\ defaultState = stateExited => defaultState' = stateExited ]_vars

C15_Witness ==
    /\ state = stateExited
    /\ defaultState = stateRunning
    /\ \E k \in Setters : sdmpc[k] = "errRunning"

(* C16: once a SetDefaultManager(m) call has returned nil, m is the        *)
(* default manager and every package-level operation called from then on   *)
(* is performed on m.                                                      *)
C16_InstalledManagerStays ==
    \A k \in Setters :
        sdmpc[k] = "ok" => (defaultManager = Custom(k) /\ strayOps = {})

(* C17: a SetDefaultManager call made with the default manager in state    *)
(* ShuttingDown or Exited returns ErrCannotCallAfterShutdown and leaves    *)
(* the default manager as it is.                                           *)
C17_RefusedAfterShutdown ==
    \A k \in sdmAfterSD :
        sdmpc[k] = "errShutdown" /\ defaultManager # Custom(k)

(* C18: a SetDefaultManager call made after def() has created the default  *)
(* manager returns ErrManagerAlreadyRunning and leaves the default manager *)
(* as it is, and at most one SetDefaultManager call returns nil.           *)
C18_RefusedAfterLazyInit ==
    /\ \A k \in sdmLate : sdmpc[k] = "errRunning" /\ defaultManager # Custom(k)
    /\ Cardinality({k \in Setters : sdmpc[k] \in {"won", "ok"}}) <= 1

C18_Witness ==
    /\ \E k \in sdmLate : sdmpc[k] = "errRunning"
    /\ \E k \in Setters : sdmpc[k] = "ok"
    /\ defaultManager = Lazy
    /\ state = stateInit

NilParentCall(p) == ctxpc[p] = "idle" /\ p \in nilParent'

C20_NilParentRejected ==
    [][ \A p \in Callers :
          NilParentCall(p) => (ctxpc'[p] = "errNil" /\ UNCHANGED ctxVars) ]_vars

(* C20 amended: such a call returns ErrParentContextNil when the holder is *)
(* empty and ErrContextAlreadyInit when the holder already has a context;  *)
(* in both cases it leaves the stored context and cancel function as they  *)
(* are.                                                                    *)
C20_NilParentStoresNothing ==
    [][ \A p \in Callers :
          NilParentCall(p) =>
            /\ ctxpc'[p] = (IF ctxCtx = NilCtx THEN "errNil" ELSE "errInit")
            /\ UNCHANGED ctxVars ]_vars

C20_Witness ==
    /\ \E p \in nilParent : ctxpc[p] = "errInit"
    /\ \E p \in Callers : ctxpc[p] = "ok" /\ ctxCtx = p /\ ctxCancel = p

(* C21: a Shutdown call is always possible and returns in one step: with   *)
(* the code mailbox full it leaves the pending code, logs one warning and  *)
(* changes nothing else of the manager; with the mailbox empty it stores   *)
(* its code and logs nothing.                                              *)
ShutdownStep == nShutdown' = nShutdown + 1

C21_ShutdownNeverBlocks ==
    /\ [](Alive /\ nShutdown < MaxShutdowns => ENABLED Shutdown(ExitOK))
    /\ [][ ShutdownStep =>
            /\ IF Len(code) = 1
               THEN code' = code /\ warns' = warns + 1
               ELSE Len(code') = 1 /\ code'[1] \in ManualCodes /\ warns' = warns
            /\ UNCHANGED <<state, exit, catch, handlers, once, mu, ctxVars, seqVars,
                           addpc, ctxpc, proc>> ]_vars

C21_Witness ==
    /\ warns = 1
    /\ nShutdown = 2
    /\ Len(code) = 1
    /\ pc = "select"
    /\ state = stateInit

(* C25: the root context and its cancel function are one atomic pair: in   *)
(* no state does Context() return a stored root context whose cancel       *)
(* function the sequencer cannot load, and a root context that is stored   *)
(* when the sequencer performs the cancellation is canceled by that step.  *)
C25_ContextAndCancelArePair ==
    [][ /\ ctxCtx' # NilCtx => ctxCancel' = ctxCtx'
        /\ (pc = "cancel" /\ pc' = "wgAdd" /\ ctxCtx # NilCtx)
              => ctxCtx \in canceled' ]_vars

(* C26: the sequencer consumes one trigger: the trigger consumed and the   *)
(* preliminary code are fixed by the first selection and nothing is taken  *)
(* from the mailboxes afterwards; a signal or a Shutdown / Exit call that  *)
(* arrives with the state ShuttingDown or Exited changes nothing of the    *)
(* sequencer, the handlers, the published code or the life of the process; *)
(* no handler is invoked twice and the published code is the one computed  *)
(* from the preliminary code.                                              *)
TriggerStep == nShutdown' # nShutdown \/ nSignals' # nSignals

Finished == {h \in Range(fns) : g[h] = "finished"}

C27_StartedEqualsWaited ==
    /\ wg >= 0
    /\ pc \in {"wait", "term", "end"} => wg + Cardinality(Finished) = Len(fns)
    /\ done => Finished = Range(fns)

(* C28 as stated: a handler is invoked with a context that is not done     *)
(* at that moment, and the context becomes done only by the expiry of the  *)
(* timeout or by the end of exec.                                          *)
InvokeStep == \E h \in Handlers : calls'[h] = calls[h] + 1
ExecAddStep == pc = "wgAdd" /\ pc' = "clone"
ExecEndStep == pc = "wait" /\ pc' = "term"

OwnTimeout(m) ==
    IF setOn[m] = NoDuration THEN defaultShutdownTimeout ELSE setOn[m]

C29_TimeoutPerManager ==
    [][ pc = "wgAdd" /\ pc' = "clone" => usedTimeout' = OwnTimeout(Self) ]_vars

(* C22: every record a logger emits after a SetBackend or successful      *)
(* Config call has returned, the global logger or one derived earlier with *)
(* New, With or WithGroup, is handled by the backend of the last call that *)
(* returned, or by the backend of a later call that is storing it, and by  *)
(* no backend set before; the package variable holds the backend of the    *)
(* last call whenever the mutex is free.                                   *)
BeingSet == {BackendOf(k) : k \in {j \in LogSetters : setpc[j] = "store"}}

C22_NewBackendHandlesRecords ==
    [][ /\ logMu' = 0 => backend' = Iface(TypeOf(lastSet'), lastSet')
        /\ (delivered' # delivered /\ delivered'.by # 0) =>
              delivered'.to \in {lastSet} \cup BeingSet ]_vars

(* C23 as stated: every WithAttrs and WithGroup call returns a handler     *)
(* that did not exist before, and no call changes the receiver or another  *)
(* existing handler: each handler keeps the attributes and groups it was   *)
(* made with, which are those of its parent and its own, and emits them.   *)
EmittedBy(b, rec) ==
    IF Len(b.attrs) = 0 /\ Len(b.groups) = 0 THEN rec
    ELSE DropEmptyGroups(WrapGroups(b.groups, b.attrs \o rec, Len(b.groups)))

DeliverStep == emit.st = "enabled" /\ emit'.st = "idle"

KeepsWhatItWasMadeWith ==
    /\ \A h \in 1..Len(hs) :
          /\ hs'[h] = hs[h]
          /\ born'[h] = born[h]
          /\ Elems(attrHeap', hs'[h].attrs) = Elems(attrHeap, hs[h].attrs)
          /\ Elems(groupHeap', hs'[h].groups) = Elems(groupHeap, hs[h].groups)
    /\ \A h \in 1..Len(hs') :
          /\ Elems(attrHeap', hs'[h].attrs) = born'[h].attrs
          /\ Elems(groupHeap', hs'[h].groups) = born'[h].groups
    /\ DeliverStep => delivered'.attrs = EmittedBy(born[emit.by], delivered'.rec)

C23_AlwaysNewHandler ==
    [][ /\ KeepsWhatItWasMadeWith
        /\ ret' # ret => (ret'.h = Len(hs) + 1 /\ Len(hs') = Len(hs) + 1) ]_vars

(* C23 amended: a call that adds at least one attribute or a non-empty     *)
(* group name returns a handler that did not exist before; a call with no  *)
(* attribute or with the empty name returns the receiver itself; no call   *)
(* changes the receiver or another existing handler: each handler keeps    *)
(* the attributes and groups it was made with and emits them.              *)
C23_NewHandlerUnlessNothingAdded ==
    [][ /\ KeepsWhatItWasMadeWith
        /\ ret' # ret =>
              \/ ret'.h = ret'.recv /\ hs' = hs
              \/ /\ ret'.h = Len(hs) + 1 /\ Len(hs') = Len(hs) + 1
                 /\ born'[ret'.h].parent = ret'.recv
                 /\ \/ born'[ret'.h].attrs # born[ret'.recv].attrs
                    \/ born'[ret'.h].groups # born[ret'.recv].groups ]_vars

C23_Witness ==
    \E p, a, b \in 1..Len(hs) :
        /\ p > logger
        /\ born[a].parent = p /\ born[b].parent = p
        /\ born[a].attrs # born[b].attrs
        /\ Cap(attrHeap, hs[p].attrs) > hs[p].attrs.len
        /\ emit.st = "enabled" /\ emit.by = p
        /\ ret.h = ret.recv

(* C24: every record a logger made by New(name), or derived from it with   *)
(* With or WithGroup, emits carries the attribute pkg = name at the top    *)
(* level of the record, under the key pkg.                                 *)
RECURSIVE Flat(_, _)
Flat(as, prefix) ==
    IF Len(as) = 0 THEN <<>>
    ELSE LET a == Head(as)
         IN  (IF a.kind = "group"
              THEN Flat(a.sub, IF a.key = "" THEN prefix ELSE Append(prefix, a.key))
              ELSE <<[path |-> prefix, key |-> a.key, val |-> a.str]>>)
             \o Flat(Tail(as), prefix)

Delivered == delivered.by # 0 /\ delivered.to # Torn

C24_PkgAttributeStays ==
    (Delivered /\ born[delivered.by].named # "")
    => \E i \in 1..Len(Flat(delivered.attrs, <<>>)) :
          Flat(delivered.attrs, <<>>)[i] =
              [path |-> <<>>, key |-> "pkg", val |-> born[delivered.by].named]

(* C30: in every record a logger emits, each attribute of the record is    *)
(* nested in the groups the logger was derived with, in the order of the   *)
(* WithGroup calls, outermost first: attribute k of the record reaches the *)
(* backend under the path g1.g2.....gn; the attributes of the record keep  *)
(* their order and come after those of the handler.                        *)
C30_GroupsNestInInsertionOrder ==
    Delivered =>
      LET f == Flat(delivered.attrs, <<>>)
          r == delivered.rec
          b == born[delivered.by]
      IN  /\ Len(f) = Len(b.attrs) + Len(r)
          /\ \A i \in 1..Len(r) :
                /\ f[Len(b.attrs) + i].path = b.groups
                /\ f[Len(b.attrs) + i].key = r[i].key
                /\ f[Len(b.attrs) + i].val = r[i].str

C30_Witness ==
    /\ Delivered
    /\ born[delivered.by].groups = <<"g2", "g1">>
    /\ born[delivered.by].attrs = <<>>
    /\ Flat(delivered.attrs, <<>>) = <<[path |-> <<"g2", "g1">>, key |-> "id", val |-> "7"]>>

====
